---- MODULE Spec2Model ----
(***************************************************************************)
(* A model of the SUUMO scraper (src/apps/scraper/suumo_scraper.py) and of  *)
(* the dashboard's store readers (src/apps/dashboard/app.py).               *)
(*                                                                         *)
(*   SpecCrawl  crawl_list_pages: the link-discovery loop                   *)
(*   SpecAddr   run()'s address filter applied to one row, any address      *)
(*   SpecDedup  run()'s filter and two dedup passes applied to raw rows     *)
(*   Spec       run() from fetching to save_sqlite, run after run, with     *)
(*              the dashboard's readers reading the store at any moment     *)
(*   SpecGraph  crawl_list_pages on one site whose every fetch returns      *)
(*   SpecSchema save_sqlite on a store with an older listings column set    *)
(*   SpecUnit   the page parsers' unit prices for one card                  *)
(*   SpecPrice  extract_price_yen on every short price cell                 *)
(***************************************************************************)
EXTENDS Integers, Sequences, FiniteSets, TLC

VARIABLES
    \* ---- crawl_list_pages (locals of one call)
    seed_url,      \* argument seed_url
    max_pages,     \* argument max_pages
    visited,       \* set of URLs
    queue,         \* list of URLs
    url,           \* the URL popped in the current iteration
    cpc,           \* position: "loop", "fetch", "returned", "raised", "off"
    result,        \* the returned list
    enqueued,      \* history: every URL ever placed in queue
    \* ---- one application of run()'s filter and dedup to a list of raw rows
    f_in,          \* the raw rows (all_rows)
    f_out,         \* the surviving rows
    f_pc,          \* "in", "out", "off"
    \* ---- run(), its files and the store
    site,          \* the site as the current run finds it
    pc,            \* position of run(): "idle", "crawl", "parse", "frame",
                   \* "history", "connect", "delete", "insert", "ledger",
                   \* "done", "raised" ("off" outside Spec)
    run_date,      \* argument run_date (NoDate for None)
    run_dt,        \* run_dt, once resolved
    cfg_i,         \* index of cfg in build_configs()
    urls_left,     \* URLs of cfg still to fetch and parse
    all_rows,      \* all_rows
    df,            \* df
    error,         \* what run() raised: "none", "transport" (requests),
                   \* "OperationalError", "IntegrityError" (sqlite3)
    fetch_failed,  \* history: a fetch_html of this run raised
    clock,         \* the clock now_jst() reads, in seconds
    latest_csv,    \* listings_latest.csv
    history,       \* the history directory
    db,            \* suumo.db as committed: what a reader's connection reads
    con,           \* suumo.db as save_sqlite's connection sees it
    pre,           \* history: the files and the store when the run started
    prev,          \* history: the last run that completed before this one
    seen_runs,     \* what load_runs last returned
    seen_listings, \* what load_history_listings last returned
    nruns,         \* runs started
    completed,     \* history: run date -> the rows its last completed run stored
    torn,          \* history: run dates whose last store write broke off
    whole,         \* history: the store before any run and after each
                   \* completed run
    \* ---- crawl_list_pages on one fixed site
    links,         \* the site: URL -> the hrefs of its page, in page order
    \* ---- save_sqlite on a store an earlier version of the scraper made
    cols,          \* the columns of table listings (NoTable: no table yet)
    table,         \* the rows of listings, each a function on cols
    s_runs,        \* the rows of table runs
    s_pc,          \* position of save_sqlite: "idle", "create", "migrate",
                   \* "delete", "insert", "ledger" ("off" outside SpecSchema)
    s_df,          \* argument df
    s_date,        \* argument run_date
    s_error,       \* what save_sqlite raised: "none", "OperationalError"
    s_pre,         \* history: cols and table when the call started
    s_writes       \* calls started

crawlVars == <<seed_url, max_pages, visited, queue, url, cpc, result, enqueued>>

funVars == <<f_in, f_out, f_pc>>

runVars == <<site, pc, run_date, run_dt, cfg_i, urls_left, all_rows, df, error,
             fetch_failed, clock, latest_csv, history, db, con, pre, prev,
             seen_runs, seen_listings, nruns, completed, torn, whole>>

graphVars == <<links>>

schemaVars == <<cols, table, s_runs, s_pc, s_df, s_date, s_error, s_pre,
                s_writes>>

extVars == <<graphVars, schemaVars>>

vars == <<crawlVars, funVars, runVars, extVars>>

-----------------------------------------------------------------------------
(* Bounds *)

\* largest max_pages tried
MaxPagesBound == 2
\* most a[href] elements on one fetched page
MaxLinks == 2

-----------------------------------------------------------------------------
(* URLs.  A URL is its host (netloc) and its path, a string of characters.  *)
(* An href is the same record; host "" is an href without scheme and host   *)
(* ("/a/b"), and the empty path with host "" is the empty href.             *)

BASE == "suumo.jp"

Hosts == {BASE, "other.example"}

Paths == { <<"/", "a">>,
           <<"/", "a", "/">>,
           <<"/", "a", "/", "b">>,
           <<"/", "a", "b">>,
           <<"/", "b">> }

Urls == [host : Hosts, path : Paths]

NoUrl == [host |-> "", path |-> <<>>]

Hrefs == [host : Hosts \cup {""}, path : Paths] \cup {NoUrl}

\* every list of at most n elements of S
SeqUpTo(S, n) == UNION { [1..k -> S] : k \in 0..n }

\* str.startswith
startswith(s, p) ==
    /\ Len(p) <= Len(s)
    /\ \A i \in 1..Len(p) : s[i] = p[i]

\* urljoin(BASE, url): an href with its own host keeps it, a host-less href
\* takes BASE's host
absolute(href) ==
    IF href.host = "" THEN [host |-> BASE, path |-> href.path] ELSE href

InSeq(x, s) == \E i \in 1..Len(s) : s[i] = x

\* EnqueueLinks done wrongly: queue.insert(0, nxt) for queue.append(nxt)
RECURSIVE EnqueueLinks_front(_, _, _, _)
EnqueueLinks_front(hrefs, q, v, seed) ==
    IF hrefs = <<>> THEN q
    ELSE LET href == Head(hrefs)
             nxt  == absolute(href)
             keep == /\ href # NoUrl
                     /\ nxt.host = BASE
                     /\ startswith(nxt.path, seed.path)
                     /\ nxt \notin v
                     /\ ~InSeq(nxt, q)
         IN  EnqueueLinks_front(Tail(hrefs),
                                IF keep THEN <<nxt>> \o q ELSE q, v, seed)

\* EnqueueLinks done wrongly: the test "nxt not in visited" left out
RECURSIVE EnqueueLinks_revisit(_, _, _, _)
EnqueueLinks_revisit(hrefs, q, v, seed) ==
    IF hrefs = <<>> THEN q
    ELSE LET href == Head(hrefs)
             nxt  == absolute(href)
             keep == /\ href # NoUrl
                     /\ nxt.host = BASE
                     /\ startswith(nxt.path, seed.path)
                     /\ ~InSeq(nxt, q)
         IN  EnqueueLinks_revisit(Tail(hrefs),
                                  IF keep THEN Append(q, nxt) ELSE q, v, seed)

\* the for loop over soup.select("a[href]"), links in page order
RECURSIVE EnqueueLinks(_, _, _, _)
EnqueueLinks(hrefs, q, v, seed) ==
    IF hrefs = <<>> THEN q
    ELSE LET href == Head(hrefs)
             nxt  == absolute(href)
             keep == /\ href # NoUrl
                     /\ nxt.host = BASE
                     /\ startswith(nxt.path, seed.path)
                     /\ nxt \notin v
                     /\ ~InSeq(nxt, q)
         IN  EnqueueLinks(Tail(hrefs), IF keep THEN Append(q, nxt) ELSE q, v, seed)

\* the order of sorted() on URL strings: "https://" + host + path
CharRank(c) == CASE c = "/" -> 1 [] c = "a" -> 2 [] c = "b" -> 3 [] OTHER -> 4
HostRank(h) == IF h = "other.example" THEN 1 ELSE 2

RECURSIVE StrLess(_, _)
StrLess(s, t) ==
    IF t = <<>> THEN FALSE
    ELSE IF s = <<>> THEN TRUE
    ELSE IF CharRank(Head(s)) # CharRank(Head(t))
         THEN CharRank(Head(s)) < CharRank(Head(t))
         ELSE StrLess(Tail(s), Tail(t))

UrlLess(u, w) ==
    \/ HostRank(u.host) < HostRank(w.host)
    \/ u.host = w.host /\ StrLess(u.path, w.path)

RECURSIVE sorted(_)
sorted(S) ==
    IF S = {} THEN <<>>
    ELSE LET m == CHOOSE x \in S : \A y \in S \ {x} : UrlLess(x, y)
         IN  <<m>> \o sorted(S \ {m})

\* LoopCond done wrongly: the budget test off by one
LoopCond_le(q, v, m) == q # <<>> /\ Cardinality(v) <= m

\* while queue and len(visited) < max_pages
LoopCond(q, v, m) == q # <<>> /\ Cardinality(v) < m

-----------------------------------------------------------------------------
(* Text.  A text is a list of tokens: a listed or unlisted street name, a   *)
(* digit, a full-width digit, a hyphen, a blank, an ideographic blank, the  *)
(* partial-lot marker, a layout word.                                       *)

Blank == " "
WideBlank == "IDEOGRAPHIC_SPACE"
Hyphen == "-"
Digits == {"7"}
WideDigit == "FULLWIDTH_7"
PartialLot == "NO_ICHIBU"

\* the alternation of the regex at line 133: the four names it lists
NoisyStreets == {"Okusawa", "HigashiTamagawa", "DenEnChofu", "Todoroki"}
\* a street name the regex does not list
OtherStreets == {"Jiyugaoka"}

\* unicodedata.normalize("NFKC", .) token by token
NFKC(tok) ==
    CASE tok = WideDigit -> "7"
      [] tok = WideBlank -> Blank
      [] OTHER -> tok

\* re.sub(r"\s+", " ", text): runs of blanks become one blank
RECURSIVE CollapseBlanks(_)
CollapseBlanks(s) ==
    IF Len(s) <= 1 THEN s
    ELSE IF s[1] = Blank /\ s[2] = Blank THEN CollapseBlanks(Tail(s))
    ELSE <<s[1]>> \o CollapseBlanks(Tail(s))

\* str.strip() of a text whose blank runs are already single
Strip(s) ==
    LET a == IF s # <<>> /\ s[1] = Blank THEN Tail(s) ELSE s
    IN  IF a # <<>> /\ a[Len(a)] = Blank THEN SubSeq(a, 1, Len(a) - 1) ELSE a

normalize_text(text) ==
    Strip(CollapseBlanks([i \in 1..Len(text) |-> NFKC(text[i])]))

\* the first index >= i of s whose token is not in class C (Len(s)+1 if none)
RECURSIVE SkipWhile(_, _, _)
SkipWhile(s, i, C) ==
    IF i <= Len(s) /\ s[i] \in C THEN SkipWhile(s, i + 1, C) ELSE i

\* re.search(r"(names)\s*\d+\s*-\s*\d+", a)
LotBlockSearch(a, names) ==
    \E i \in 1..Len(a) :
        /\ a[i] \in names
        /\ LET d1 == SkipWhile(a, i + 1, {Blank})
               e1 == SkipWhile(a, d1, Digits)
               h  == SkipWhile(a, e1, {Blank})
               d2 == SkipWhile(a, h + 1, {Blank})
           IN  /\ e1 > d1
               /\ h <= Len(a) /\ a[h] = Hyphen
               /\ d2 <= Len(a) /\ a[d2] \in Digits

is_noisy_address(address) ==
    LET a == normalize_text(address)
    IN  \/ a = <<>>
        \/ InSeq(PartialLot, a)
        \/ LotBlockSearch(a, NoisyStreets)

-----------------------------------------------------------------------------
(* Rows.  A raw row carries the columns the filter and the dedup read;      *)
(* the other columns (category, title, price_text, area_tsubo, the unit     *)
(* prices, detail_text) ride along unread and are left out.  area_sqm is in *)
(* thousandths of a square metre and price_yen in tenths of a yen, so that  *)
(* the rounding has something to round; NA is None / NaN.                   *)

NA == 0 - 1

\* numpy's round: to the nearest multiple of unit, halves to the even one
RoundHalfEven(x, unit) ==
    IF x = NA THEN NA
    ELSE LET q == x \div unit
             r == x % unit
         IN  IF 2 * r < unit THEN q
             ELSE IF 2 * r > unit THEN q + 1
             ELSE IF q % 2 = 0 THEN q ELSE q + 1

\* DedupeKey done wrongly: the price left out of the fingerprint
DedupeKey_noprice(r) ==
    <<r.sub_category, RoundHalfEven(r.area_sqm, 10), NA,
      normalize_text(r.layout_text)>>

\* subset=["sub_category", "dedupe_area", "dedupe_price", "dedupe_layout"]:
\* area_sqm.round(2) takes thousandths to hundredths, price_yen.round(0)
\* tenths to units
DedupeKey(r) ==
    <<r.sub_category, RoundHalfEven(r.area_sqm, 10),
      RoundHalfEven(r.price_yen, 10), normalize_text(r.layout_text)>>

\* subset=["sub_category", "listing_id", "detail_url"]
ListingKey(r) == <<r.sub_category, r.listing_id, r.detail_url>>

\* DataFrame.drop_duplicates(subset=...), keep="first"; NaN equals NaN.
\* keys[i] is the subset's columns of rows[i].
RECURSIVE drop_duplicates(_, _, _)
drop_duplicates(rows, keys, seen) ==
    IF rows = <<>> THEN <<>>
    ELSE IF Head(keys) \in seen
         THEN drop_duplicates(Tail(rows), Tail(keys), seen)
         ELSE <<Head(rows)>> \o
              drop_duplicates(Tail(rows), Tail(keys), seen \cup {Head(keys)})

\* lines 455-458: the address is normalized, rows with a noisy one dropped
AddressFilter(rows) ==
    LET norm == [i \in 1..Len(rows) |->
                    [rows[i] EXCEPT !.address = normalize_text(@)]]
        Keep(r) == ~is_noisy_address(r.address)
    IN  SelectSeq(norm, Keep)

\* lines 451-467 without the run_date and fetched_at stamps
FilterDedup(raw) ==
    IF raw = <<>> THEN <<>>
    ELSE LET kept  == AddressFilter(raw)
             first == drop_duplicates(
                          kept, [i \in 1..Len(kept) |-> DedupeKey(kept[i])], {})
         IN  drop_duplicates(
                 first, [i \in 1..Len(first) |-> ListingKey(first[i])], {})

\* a neighbourhood-level address and a lot-level one
CleanAddr == <<"Okusawa", "7">>
NoisyAddr == <<"Okusawa", "7", Hyphen, "7">>

-----------------------------------------------------------------------------
(* run(): the fetch phase, the output files and the store.  The crawl of    *)
(* one category is taken as a whole here (SpecCrawl has its loop): it       *)
(* returns its URLs or raises.                                              *)

\* runs started in one behaviour
MaxRuns == 2
\* last reading of the clock, in seconds
MaxClock == 1
\* seconds to a calendar day of the clock
DayTicks == 1
NoDate == [year |-> 0, month |-> 0, day |-> 0]

\* the --run-date values tried
DateArgs == { [year |-> 2026, month |-> 1, day |-> 12] }

\* now_jst().date()
today_jst(now) == [year |-> 2026, month |-> 11, day |-> 2 + (now \div DayTicks)]

AllDates == DateArgs \cup { today_jst(c) : c \in 0..MaxClock }

\* date.isoformat(): "YYYY-MM-DD", the fields zero-padded
isoformat(d) == <<d.year, d.month, d.day>>

\* HistoryName done wrongly: the fields joined without zero padding
HistoryName_unpadded(d) ==
    LET md == IF d.day < 10 THEN d.month * 10 + d.day
                            ELSE d.month * 100 + d.day
    IN  IF md < 100 THEN d.year * 100 + md
        ELSE IF md < 1000 THEN d.year * 1000 + md
        ELSE d.year * 10000 + md

\* f"listings_{run_dt.strftime('%Y%m%d')}.csv": the digits of the name
HistoryName(d) == d.year * 10000 + d.month * 100 + d.day

\* build_configs(), each with the sub_category its parser stamps
Configs ==
    << [category |-> "rent",       sub_category |-> "chintai"],
       [category |-> "house_new",  sub_category |-> "kodate_shinchiku"],
       [category |-> "house_used", sub_category |-> "kodate_chuko"],
       [category |-> "land",       sub_category |-> "tochi"] >>

Listing(sub, id, u, addr, price, area) ==
    [sub_category |-> sub, listing_id |-> id, detail_url |-> u,
     address |-> addr, price_yen |-> price, area_sqm |-> area,
     layout_text |-> <<"3LDK">>]

\* a room, the same room under a second URL with another price, the room
\* cross-posted under another id, a lot-level address, a plot of land
RoomA == Listing("chintai", "1", "u1", CleanAddr, 1200004, 50504)
RoomB == Listing("chintai", "1", "u1b", CleanAddr, NA, 50504)
RoomC == Listing("chintai", "2", "u2", CleanAddr, 1200004, 50496)
RoomN == Listing("chintai", "3", "u3", NoisyAddr, 1200004, 50504)
Plot  == Listing("tochi", "1", "u1", CleanAddr, 1200004, 50504)

\* The site as one run finds it: for each category the list pages its
\* crawl returns, in the order returned, each as the rows its parser reads
\* off it (<<>> also for a page without cards, line 424).  The seed is
\* always among the pages.
NoCards == << <<>> >>

SiteEmpty ==
    [rent |-> NoCards, house_new |-> NoCards, house_used |-> NoCards,
     land |-> NoCards]

SiteOne ==
    [rent |-> << <<RoomA>> >>, house_new |-> NoCards, house_used |-> NoCards,
     land |-> NoCards]

SiteTwoPages ==
    [rent |-> << <<RoomA, RoomN>>, <<RoomC>> >>, house_new |-> NoCards,
     house_used |-> NoCards, land |-> << <<Plot>> >>]

SiteSameId ==
    [rent |-> << <<RoomA, RoomB>> >>, house_new |-> NoCards,
     house_used |-> NoCards, land |-> NoCards]

Sites == {SiteEmpty, SiteOne, SiteTwoPages, SiteSameId}

\* a file: absent, or its rows
NoFile == [exists |-> FALSE, rows |-> <<>>]
File(rows) == [exists |-> TRUE, rows |-> rows]

\* a directory of files by name
WriteFile(dir, name, rows) ==
    [n \in DOMAIN dir \cup {name} |-> IF n = name THEN File(rows) ELSE dir[n]]

ReadFile(dir, name) == IF name \in DOMAIN dir THEN dir[name] ELSE NoFile

NoFiles == [n \in {} |-> NoFile]

EmptyStore == [listings |-> {}, runs |-> {}]

\* lines 459-460: the two stamps on a surviving row
Stamped(r, date, at) ==
    [run_date |-> isoformat(date), fetched_at |-> at,
     sub_category |-> r.sub_category, listing_id |-> r.listing_id,
     detail_url |-> r.detail_url, address |-> r.address,
     price_yen |-> r.price_yen, area_sqm |-> r.area_sqm,
     layout_text |-> r.layout_text]

\* lines 451-467
Frame(rows, date, at) ==
    LET kept == FilterDedup(rows)
    IN  [i \in 1..Len(kept) |-> Stamped(kept[i], date, at)]

\* df.drop(columns=["fetched_at"])
DropFetchedAt(r) ==
    [run_date |-> r.run_date,
     sub_category |-> r.sub_category, listing_id |-> r.listing_id,
     detail_url |-> r.detail_url, address |-> r.address,
     price_yen |-> r.price_yen, area_sqm |-> r.area_sqm,
     layout_text |-> r.layout_text]

to_db(frame) == [i \in 1..Len(frame) |-> DropFetchedAt(frame[i])]

\* PRIMARY KEY (run_date, sub_category, listing_id)
PrimaryKey(r) == <<r.run_date, r.sub_category, r.listing_id>>

RowsOf(listings, date_str) == { r \in listings : r.run_date = date_str }

\* DeleteRunDate done wrongly: the DELETE matches nothing
DeleteRunDate_none(listings, date_str) == listings

\* DELETE FROM listings WHERE run_date = ?
DeleteRunDate(listings, date_str) == listings \ RowsOf(listings, date_str)

\* df.to_sql(..., if_exists="append"): whether some row is rejected by the
\* primary key, against the table or against an earlier row of the frame
Rejected(listings, rows) ==
    \/ \E i \in 1..Len(rows) : \E r \in listings :
          PrimaryKey(r) = PrimaryKey(rows[i])
    \/ \E i, j \in 1..Len(rows) :
          i # j /\ PrimaryKey(rows[i]) = PrimaryKey(rows[j])

Inserted(listings, rows) == listings \cup { rows[i] : i \in 1..Len(rows) }

\* InsertOrReplaceRun done wrongly: a plain INSERT that keeps the old row
InsertOrReplaceRun_keep(ledger, date_str, total, at) ==
    ledger \cup
        {[run_date |-> date_str, total_records |-> total, updated_at |-> at]}

\* INSERT OR REPLACE INTO runs(run_date,total_records,updated_at)
InsertOrReplaceRun(ledger, date_str, total, at) ==
    { r \in ledger : r.run_date # date_str } \cup
        {[run_date |-> date_str, total_records |-> total, updated_at |-> at]}

-----------------------------------------------------------------------------
(* Each specification keeps the variables of the others at rest *)

(* The columns of table listings.  A row is a function on the table's       *)
(* columns; NULL is SQL's null.                                             *)

\* the columns no ALTER TABLE of save_sqlite adds: every version of the
\* scraper created the table with them
BaseColumns ==
    {"run_date", "category", "sub_category", "listing_id", "title",
     "address", "price_text", "detail_text", "detail_url"}

\* the columns save_sqlite adds when PRAGMA table_info lacks them
MigratedColumns_short ==
    {"price_yen", "area_sqm", "area_tsubo", "unit_price_per_sqm", "layout_text"}

MigratedColumns ==
    {"price_yen", "area_sqm", "area_tsubo", "unit_price_per_sqm",
     "unit_price_per_tsubo", "layout_text"}

\* the columns of CREATE TABLE IF NOT EXISTS listings, and of to_db
AllColumns == BaseColumns \cup MigratedColumns

\* the column sets earlier versions of the scraper created the table with
OlderColumnSets == { BaseColumns \cup m : m \in SUBSET MigratedColumns }

NoTable == {}
NULL == "NULL"

\* a row of the table: its key, a value in every other column
TableRow(columns, date, id) ==
    [c \in columns |->
        CASE c = "run_date"     -> date
          [] c = "sub_category" -> "chintai"
          [] c = "listing_id"   -> id
          [] OTHER              -> "v"]

\* ALTER TABLE listings ADD COLUMN, once for each of added: the rows there
\* are null in the new columns
AddColumns(rows, added) ==
    { [c \in (DOMAIN r) \cup added |-> IF c \in DOMAIN r THEN r[c] ELSE NULL]
        : r \in rows }

\* Migrate done wrongly: no ALTER TABLE for unit_price_per_tsubo
Migrate_short(columns) == columns \cup MigratedColumns_short

\* the ALTER TABLE statements of lines 380-391
Migrate(columns) == columns \cup MigratedColumns

\* the run dates of the stored rows and of the calls
SchemaDates == {"2026-01-12", "2026-01-13"}

\* the frames written: no row, one row, two rows
SchemaFrames(date) ==
    { {}, {TableRow(AllColumns, date, "1")},
      {TableRow(AllColumns, date, "1"), TableRow(AllColumns, date, "2")} }

NoSnapshot == [cols |-> NoTable, table |-> {}]

GraphOff == links = <<>>

SchemaOff ==
    /\ cols = NoTable /\ table = {} /\ s_runs = {} /\ s_pc = "off"
    /\ s_df = {} /\ s_date = "" /\ s_error = "none" /\ s_pre = NoSnapshot
    /\ s_writes = 0

ExtOff == GraphOff /\ SchemaOff

CrawlOff ==
    /\ seed_url = NoUrl /\ max_pages = 0 /\ visited = {} /\ queue = <<>>
    /\ url = NoUrl /\ cpc = "off" /\ result = <<>> /\ enqueued = {}

FunOff == f_in = <<>> /\ f_out = <<>> /\ f_pc = "off"

RunOff ==
    /\ site = SiteEmpty
    /\ pc = "off" /\ run_date = NoDate /\ run_dt = NoDate /\ cfg_i = 0
    /\ urls_left = 0 /\ all_rows = <<>> /\ df = <<>> /\ error = "none"
    /\ fetch_failed = FALSE /\ clock = 0 /\ latest_csv = NoFile
    /\ history = NoFiles /\ db = EmptyStore /\ con = EmptyStore
    /\ pre = [latest |-> NoFile, history |-> NoFiles, db |-> EmptyStore]
    /\ prev = [ok |-> FALSE, site |-> SiteEmpty, run_dt |-> NoDate, latest |-> NoFile]
    /\ seen_runs = {} /\ seen_listings = {} /\ nruns = 0
    /\ completed = [d \in {} |-> {}] /\ torn = {} /\ whole = {EmptyStore}

-----------------------------------------------------------------------------
(* crawl_list_pages *)

InitCrawl ==
    /\ FunOff /\ RunOff /\ ExtOff
    /\ seed_url \in Urls
    /\ max_pages \in 0..MaxPagesBound
    /\ visited = {}
    /\ queue = <<seed_url>>
    /\ url = NoUrl
    /\ cpc = "loop"
    /\ result = <<>>
    /\ enqueued = {seed_url}

\* url = queue.pop(0); if url in visited: continue; visited.add(url)
CrawlVisit ==
    /\ cpc = "loop"
    /\ LoopCond(queue, visited, max_pages)
    /\ url' = Head(queue)
    /\ queue' = Tail(queue)
    /\ IF Head(queue) \in visited
       THEN cpc' = "loop" /\ visited' = visited
       ELSE cpc' = "fetch" /\ visited' = visited \cup {Head(queue)}
    /\ UNCHANGED <<seed_url, max_pages, result, enqueued>>
    /\ UNCHANGED <<funVars, runVars, extVars>>

\* fetch_html returns; the page's links are filtered into the queue
CrawlFetchOk ==
    /\ cpc = "fetch"
    /\ \E hrefs \in SeqUpTo(Hrefs, MaxLinks) :
          /\ queue' = EnqueueLinks(hrefs, queue, visited, seed_url)
          /\ enqueued' = enqueued \cup { queue'[i] : i \in 1..Len(queue') }
    /\ cpc' = "loop"
    /\ UNCHANGED <<seed_url, max_pages, visited, url, result>>
    /\ UNCHANGED <<funVars, runVars, extVars>>

\* fetch_html raises (raise_for_status or a timeout): the call is left
CrawlFetchRaise ==
    /\ cpc = "fetch"
    /\ cpc' = "raised"
    /\ UNCHANGED <<seed_url, max_pages, visited, queue, url, result, enqueued>>
    /\ UNCHANGED <<funVars, runVars, extVars>>

\* return sorted(visited)
CrawlReturn ==
    /\ cpc = "loop"
    /\ ~LoopCond(queue, visited, max_pages)
    /\ result' = sorted(visited)
    /\ cpc' = "returned"
    /\ UNCHANGED <<seed_url, max_pages, visited, queue, url, enqueued>>
    /\ UNCHANGED <<funVars, runVars, extVars>>

NextCrawl ==
    \/ CrawlVisit
    \/ CrawlFetchOk
    \/ CrawlFetchRaise
    \/ CrawlReturn

SpecCrawl == InitCrawl /\ [][NextCrawl]_vars

-----------------------------------------------------------------------------
(* crawl_list_pages on one site whose every fetch returns.  A page has the  *)
(* same links whenever it is fetched: links holds the pages fetched so far. *)

\* the pages of the site, and the hrefs their a[href] elements hold
GraphPages == { [host |-> BASE, path |-> p] :
                  p \in { <<"/", "a">>, <<"/", "a", "/">>, <<"/", "a", "/", "b">> } }

GraphHrefs == { [host |-> "", path |-> u.path] : u \in GraphPages }

InitGraph ==
    /\ FunOff /\ RunOff /\ SchemaOff
    /\ links = <<>>
    /\ seed_url \in GraphPages
    /\ max_pages \in 0..(MaxPagesBound + 1)
    /\ visited = {}
    /\ queue = <<seed_url>>
    /\ url = NoUrl
    /\ cpc = "loop"
    /\ result = <<>>
    /\ enqueued = {seed_url}

\* fetch_html returns the page of url; its links are filtered into the queue
CrawlFetchPage ==
    /\ cpc = "fetch"
    /\ \E hrefs \in SeqUpTo(GraphHrefs, MaxLinks) :
          /\ url \in DOMAIN links => hrefs = links[url]
          /\ links' = IF url \in DOMAIN links THEN links
                                               ELSE links @@ (url :> hrefs)
          /\ queue' = EnqueueLinks(hrefs, queue, visited, seed_url)
          /\ enqueued' = enqueued \cup { queue'[i] : i \in 1..Len(queue') }
    /\ cpc' = "loop"
    /\ UNCHANGED <<seed_url, max_pages, visited, url, result>>
    /\ UNCHANGED <<funVars, runVars, schemaVars>>

NextGraph ==
    \/ CrawlVisit
    \/ CrawlFetchPage
    \/ CrawlReturn

\* the call runs on until it returns
SpecGraph == InitGraph /\ [][NextGraph]_vars /\ WF_vars(NextGraph)

-----------------------------------------------------------------------------
(* The address filter on every short address *)

\* longest address tried, in tokens
MaxAddrLen == 4

AddrTokens == {"Okusawa", "Jiyugaoka", "7", WideDigit, Hyphen, Blank, PartialLot}

\* a row whose other columns are fixed
RowAt(address) ==
    [sub_category |-> "chintai", listing_id |-> "1", detail_url |-> "u1",
     address |-> address, price_yen |-> 1200000, area_sqm |-> 50500,
     layout_text |-> <<"3LDK">>]

InitAddr ==
    /\ CrawlOff /\ RunOff /\ ExtOff
    /\ \E a \in SeqUpTo(AddrTokens, MaxAddrLen) : f_in = <<RowAt(a)>>
    /\ f_out = <<>>
    /\ f_pc = "in"

\* lines 451-467 applied to the rows
RunFilterDedup ==
    /\ f_pc = "in"
    /\ f_out' = FilterDedup(f_in)
    /\ f_pc' = "out"
    /\ UNCHANGED <<f_in, crawlVars, runVars, extVars>>

NextAddr == RunFilterDedup

SpecAddr == InitAddr /\ [][NextAddr]_vars

-----------------------------------------------------------------------------
(* The filter and both dedup passes on every short list of raw rows *)

\* longest raw list tried
MaxRaw == 2

RawRows ==
    [sub_category : {"chintai", "tochi"},
     listing_id   : {"", "1"},
     detail_url   : {"", "u1", "u1b"},
     address      : {CleanAddr, NoisyAddr},
     price_yen    : {NA, 1200004},
     area_sqm     : {NA, 50496, 50504},
     layout_text  : {<<"3LDK">>}]

\* listing_id is read off detail_url: both empty or neither
ParsedRows == { r \in RawRows : (r.listing_id = "") <=> (r.detail_url = "") }

InitDedup ==
    /\ CrawlOff /\ RunOff /\ ExtOff
    /\ f_in \in SeqUpTo(ParsedRows, MaxRaw)
    /\ f_out = <<>>
    /\ f_pc = "in"

NextDedup == RunFilterDedup

SpecDedup == InitDedup /\ [][NextDedup]_vars

-----------------------------------------------------------------------------
(* run() and save_sqlite, the clock, the dashboard's readers *)

\* nothing written yet: no files, no database file
Init ==
    /\ CrawlOff /\ FunOff /\ ExtOff
    /\ site = SiteEmpty
    /\ pc = "idle" /\ run_date = NoDate /\ run_dt = NoDate /\ cfg_i = 0
    /\ urls_left = 0 /\ all_rows = <<>> /\ df = <<>> /\ error = "none"
    /\ fetch_failed = FALSE /\ clock = 0 /\ latest_csv = NoFile
    /\ history = NoFiles /\ db = EmptyStore /\ con = EmptyStore
    /\ pre = [latest |-> NoFile, history |-> NoFiles, db |-> EmptyStore]
    /\ prev = [ok |-> FALSE, site |-> SiteEmpty, run_dt |-> NoDate, latest |-> NoFile]
    /\ seen_runs = {} /\ seen_listings = {} /\ nruns = 0
    /\ completed = [d \in {} |-> {}] /\ torn = {} /\ whole = {EmptyStore}

\* run() is left by an exception: its locals are gone, the connection (if
\* open) is closed by the finally of save_sqlite and what it had not
\* committed is dropped
Raise(what) ==
    /\ pc' = "raised"
    /\ error' = what
    /\ cfg_i' = 0
    /\ urls_left' = 0
    /\ all_rows' = <<>>
    /\ df' = <<>>
    /\ con' = db

\* main() -> run(output_dir, run_date): a new invocation, after the last one
\* returned or raised
RunStart ==
    /\ pc \in {"idle", "done", "raised"}
    /\ nruns < MaxRuns
    /\ \E arg \in DateArgs \cup {NoDate} : run_date' = arg
    /\ site' \in Sites
    /\ pc' = "crawl"
    /\ cfg_i' = 1
    /\ urls_left' = 0
    /\ all_rows' = <<>>
    /\ run_dt' = NoDate
    /\ df' = <<>>
    /\ error' = "none"
    /\ fetch_failed' = FALSE
    /\ nruns' = nruns + 1
    /\ pre' = [latest |-> latest_csv, history |-> history, db |-> db]
    /\ prev' = IF pc = "done"
               THEN [ok |-> TRUE, site |-> site, run_dt |-> run_dt,
                     latest |-> latest_csv]
               ELSE prev
    /\ UNCHANGED <<clock, latest_csv, history, db, con, seen_runs,
                   seen_listings, completed, torn, whole>>
    /\ UNCHANGED <<crawlVars, funVars, extVars>>

\* line 420: crawl_list_pages returns cfg's page URLs, the seed among them
RunCrawl ==
    /\ pc = "crawl"
    /\ urls_left' = Len(site[Configs[cfg_i].category])
    /\ pc' = "parse"
    /\ UNCHANGED <<site, run_date, run_dt, cfg_i, all_rows, df, error, fetch_failed,
                   clock, latest_csv, history, db, con, pre, prev, seen_runs,
                   seen_listings, nruns, completed, torn, whole>>
    /\ UNCHANGED <<crawlVars, funVars, extVars>>

\* line 420: a fetch_html of the crawl raises, and run() with it
RunCrawlRaise ==
    /\ pc = "crawl"
    /\ fetch_failed' = TRUE
    /\ Raise("transport")
    /\ UNCHANGED <<site, run_date, run_dt, clock, latest_csv, history, db, pre, prev,
                   seen_runs, seen_listings, nruns, completed, torn, whole>>
    /\ UNCHANGED <<crawlVars, funVars, extVars>>

\* the two for loops of lines 419-427 move on to the next URL or category
Advance ==
    IF urls_left > 1
    THEN urls_left' = urls_left - 1 /\ cfg_i' = cfg_i /\ pc' = "parse"
    ELSE /\ urls_left' = 0
         /\ IF cfg_i < Len(Configs)
            THEN cfg_i' = cfg_i + 1 /\ pc' = "crawl"
            ELSE cfg_i' = cfg_i /\ pc' = "frame"

\* lines 422-427: the page is fetched and parsed, its rows appended
RunParsePage ==
    /\ pc = "parse"
    /\ LET pages == site[Configs[cfg_i].category]
       IN  all_rows' = all_rows \o pages[Len(pages) - urls_left + 1]
    /\ Advance
    /\ UNCHANGED <<site, run_date, run_dt, df, error, fetch_failed,
                   clock, latest_csv, history, db, con, pre, prev, seen_runs,
                   seen_listings, nruns, completed, torn, whole>>
    /\ UNCHANGED <<crawlVars, funVars, extVars>>

\* RunParseRaise done wrongly: the failed page is skipped and the run goes on
RunParseRaise_continue ==
    /\ pc = "parse"
    /\ fetch_failed' = TRUE
    /\ Advance
    /\ UNCHANGED <<site, run_date, run_dt, all_rows, df, error,
                   clock, latest_csv, history, db, con, pre, prev, seen_runs,
                   seen_listings, nruns, completed, torn, whole>>
    /\ UNCHANGED <<crawlVars, funVars, extVars>>

\* line 422: fetch_html raises, and run() with it
RunParseRaise ==
    /\ pc = "parse"
    /\ fetch_failed' = TRUE
    /\ Raise("transport")
    /\ UNCHANGED <<site, run_date, run_dt, clock, latest_csv, history, db, pre, prev,
                   seen_runs, seen_listings, nruns, completed, torn, whole>>
    /\ UNCHANGED <<crawlVars, funVars, extVars>>

\* lines 447-477: the frame is built and stamped, listings_latest.csv written
RunWriteLatest ==
    /\ pc = "frame"
    /\ run_dt' = IF run_date = NoDate THEN today_jst(clock) ELSE run_date
    /\ df' = Frame(all_rows, run_dt', clock)
    /\ latest_csv' = File(df')
    /\ pc' = "history"
    /\ UNCHANGED <<site, run_date, cfg_i, urls_left, all_rows, error, fetch_failed,
                   clock, history, db, con, pre, prev, seen_runs,
                   seen_listings, nruns, completed, torn, whole>>
    /\ UNCHANGED <<crawlVars, funVars, extVars>>

\* line 478: the history file of the run date written
RunWriteHistory ==
    /\ pc = "history"
    /\ history' = WriteFile(history, HistoryName(run_dt), df)
    /\ pc' = "connect"
    /\ UNCHANGED <<site, run_date, run_dt, cfg_i, urls_left, all_rows, df, error,
                   fetch_failed, clock, latest_csv, db, con, pre, prev,
                   seen_runs, seen_listings, nruns, completed, torn, whole>>
    /\ UNCHANGED <<crawlVars, funVars, extVars>>

\* lines 354-400: the connection opened, the tables created if missing
SaveConnect ==
    /\ pc = "connect"
    /\ con' = db
    /\ pc' = "delete"
    /\ UNCHANGED <<site, run_date, run_dt, cfg_i, urls_left, all_rows, df, error,
                   fetch_failed, clock, latest_csv, history, db, pre, prev,
                   seen_runs, seen_listings, nruns, completed, torn, whole>>
    /\ UNCHANGED <<crawlVars, funVars, extVars>>

\* lines 355-400: the store is unavailable, save_sqlite raises
SaveConnectRaise ==
    /\ pc = "connect"
    /\ fetch_failed' = fetch_failed
    /\ Raise("OperationalError")
    /\ UNCHANGED <<site, run_date, run_dt, clock, latest_csv, history, db, pre, prev,
                   seen_runs, seen_listings, nruns, completed, torn, whole>>
    /\ UNCHANGED <<crawlVars, funVars, extVars>>

\* line 402: the DELETE opens the connection's transaction; nothing of it
\* is committed
SaveDelete ==
    /\ pc = "delete"
    /\ con' = [con EXCEPT !.listings = DeleteRunDate(@, isoformat(run_dt))]
    /\ pc' = "insert"
    /\ UNCHANGED <<site, run_date, run_dt, cfg_i, urls_left, all_rows, df, error,
                   fetch_failed, clock, latest_csv, history, db, pre, prev,
                   seen_runs, seen_listings, nruns, completed, torn, whole>>
    /\ UNCHANGED <<crawlVars, funVars, extVars>>

\* lines 403-404: to_sql inserts the frame and commits the connection's
\* transaction, the DELETE with it; an empty frame is not written
SaveInsert ==
    /\ pc = "insert"
    /\ ~Rejected(con.listings, to_db(df))
    /\ IF df = <<>>
       THEN UNCHANGED <<con, db>>
       ELSE /\ con' = [con EXCEPT !.listings = Inserted(@, to_db(df))]
            /\ db' = con'
    /\ pc' = "ledger"
    /\ UNCHANGED <<site, run_date, run_dt, cfg_i, urls_left, all_rows, df, error,
                   fetch_failed, clock, latest_csv, history, pre, prev,
                   seen_runs, seen_listings, nruns, completed, torn, whole>>
    /\ UNCHANGED <<crawlVars, funVars, extVars>>

\* line 404: a row is rejected; to_sql rolls the transaction back, the
\* DELETE with it, and save_sqlite raises
SaveInsertRaise ==
    /\ pc = "insert"
    /\ Rejected(con.listings, to_db(df))
    /\ fetch_failed' = fetch_failed
    /\ Raise("IntegrityError")
    /\ UNCHANGED <<site, run_date, run_dt, clock, latest_csv, history, db, pre, prev,
                   seen_runs, seen_listings, nruns, completed, torn, whole>>
    /\ UNCHANGED <<crawlVars, funVars, extVars>>

\* lines 406-412: the ledger row written, the transaction committed
SaveLedger ==
    /\ pc = "ledger"
    /\ con' = [con EXCEPT !.runs =
                  InsertOrReplaceRun(@, isoformat(run_dt), Len(df), clock)]
    /\ db' = con'
    /\ pc' = "done"
    /\ completed' =
          [d \in DOMAIN completed \cup {isoformat(run_dt)} |->
              IF d = isoformat(run_dt)
              THEN { to_db(df)[i] : i \in 1..Len(df) }
              ELSE completed[d]]
    /\ torn' = torn \ {isoformat(run_dt)}
    /\ whole' = whole \cup {db'}
    /\ UNCHANGED <<site, run_date, run_dt, cfg_i, urls_left, all_rows, df, error,
                   fetch_failed, clock, latest_csv, history, pre, prev,
                   seen_runs, seen_listings, nruns>>
    /\ UNCHANGED <<crawlVars, funVars, extVars>>

\* lines 406-412: the ledger statement or the commit fails; close() drops
\* what is uncommitted and save_sqlite raises
SaveLedgerRaise ==
    /\ pc = "ledger"
    /\ fetch_failed' = fetch_failed
    /\ torn' = IF df = <<>> THEN torn ELSE torn \cup {isoformat(run_dt)}
    /\ Raise("OperationalError")
    /\ UNCHANGED <<site, run_date, run_dt, clock, latest_csv, history, db, pre, prev,
                   seen_runs, seen_listings, nruns, completed, whole>>
    /\ UNCHANGED <<crawlVars, funVars, extVars>>

\* a second passes on the clock.  now_jst() is read at lines 447-449 and at
\* line 408 only, so the seconds that pass are taken right before a read.
Tick ==
    /\ pc \in {"frame", "ledger"}
    /\ clock < MaxClock
    /\ clock' = clock + 1
    /\ UNCHANGED <<site, pc, run_date, run_dt, cfg_i, urls_left, all_rows, df, error,
                   fetch_failed, latest_csv, history, db, con, pre, prev,
                   seen_runs, seen_listings, nruns, completed, torn, whole>>
    /\ UNCHANGED <<crawlVars, funVars, extVars>>

\* app.py load_runs: SELECT run_date, total_records, updated_at FROM runs
load_runs ==
    /\ seen_runs' = db.runs
    /\ UNCHANGED <<site, pc, run_date, run_dt, cfg_i, urls_left, all_rows, df, error,
                   fetch_failed, clock, latest_csv, history, db, con, pre,
                   prev, seen_listings, nruns, completed, torn, whole>>
    /\ UNCHANGED <<crawlVars, funVars, extVars>>

\* app.py load_history_listings: the columns it selects of every row
load_history_listings ==
    /\ seen_listings' =
          { [run_date |-> r.run_date, sub_category |-> r.sub_category,
             address |-> r.address, price_yen |-> r.price_yen,
             area_sqm |-> r.area_sqm] : r \in db.listings }
    /\ UNCHANGED <<site, pc, run_date, run_dt, cfg_i, urls_left, all_rows, df, error,
                   fetch_failed, clock, latest_csv, history, db, con, pre,
                   prev, seen_runs, nruns, completed, torn, whole>>
    /\ UNCHANGED <<crawlVars, funVars, extVars>>

Next ==
    \/ RunStart
    \/ RunCrawl
    \/ RunCrawlRaise
    \/ RunParsePage
    \/ RunParseRaise
    \/ RunWriteLatest
    \/ RunWriteHistory
    \/ SaveConnect
    \/ SaveConnectRaise
    \/ SaveDelete
    \/ SaveInsert
    \/ SaveInsertRaise
    \/ SaveLedger
    \/ SaveLedgerRaise
    \/ Tick
    \/ load_runs
    \/ load_history_listings

Spec == Init /\ [][Next]_vars

-----------------------------------------------------------------------------
(* save_sqlite, call after call, on a store that an earlier version of the  *)
(* scraper may have created: the table absent, or there with an older       *)
(* column set and rows of earlier runs.                                     *)

\* calls started in one behaviour
MaxWrites == 2

InitSchema ==
    /\ CrawlOff /\ FunOff /\ RunOff /\ GraphOff
    /\ cols \in OlderColumnSets \cup {NoTable}
    /\ table \in IF cols = NoTable THEN {{}}
                ELSE SUBSET { TableRow(cols, d, "1") : d \in SchemaDates }
    /\ s_runs = { [run_date |-> r["run_date"], total_records |-> 1] : r \in table }
    /\ s_pc = "idle"
    /\ s_df = {}
    /\ s_date = ""
    /\ s_error = "none"
    /\ s_pre = [cols |-> cols, table |-> table]
    /\ s_writes = 0

\* save_sqlite(df, sqlite_path, run_date) is called; sqlite3.connect
SchemaCall ==
    /\ s_pc = "idle"
    /\ s_writes < MaxWrites
    /\ s_writes' = s_writes + 1
    /\ s_date' \in SchemaDates
    /\ s_df' \in SchemaFrames(s_date')
    /\ s_pre' = [cols |-> cols, table |-> table]
    /\ s_error' = "none"
    /\ s_pc' = "create"
    /\ UNCHANGED <<cols, table, s_runs>>
    /\ UNCHANGED <<crawlVars, funVars, runVars, graphVars>>

\* CREATE TABLE IF NOT EXISTS listings (lines 357-378)
SchemaCreate ==
    /\ s_pc = "create"
    /\ cols' = IF cols = NoTable THEN AllColumns ELSE cols
    /\ s_pc' = "migrate"
    /\ UNCHANGED <<table, s_runs, s_df, s_date, s_error, s_pre, s_writes>>
    /\ UNCHANGED <<crawlVars, funVars, runVars, graphVars>>

\* PRAGMA table_info and the ALTER TABLE statements (lines 379-391), then
\* CREATE TABLE IF NOT EXISTS runs (lines 392-400)
SchemaMigrate ==
    /\ s_pc = "migrate"
    /\ cols' = Migrate(cols)
    /\ table' = AddColumns(table, cols' \ cols)
    /\ s_pc' = "delete"
    /\ UNCHANGED <<s_runs, s_df, s_date, s_error, s_pre, s_writes>>
    /\ UNCHANGED <<crawlVars, funVars, runVars, graphVars>>

\* DELETE FROM listings WHERE run_date = ? (line 402)
SchemaDelete ==
    /\ s_pc = "delete"
    /\ table' = { r \in table : r["run_date"] # s_date }
    /\ s_pc' = "insert"
    /\ UNCHANGED <<cols, s_runs, s_df, s_date, s_error, s_pre, s_writes>>
    /\ UNCHANGED <<crawlVars, funVars, runVars, graphVars>>

\* if not df.empty: df.to_sql("listings", con, if_exists="append") (lines
\* 403-404).  The INSERT names df's columns: one the table lacks raises
\* sqlite3.OperationalError, the finally closes the connection and the
\* DELETE is rolled back; the ALTER TABLE statements stay.
SchemaInsert ==
    /\ s_pc = "insert"
    /\ IF s_df = {}
       THEN /\ s_pc' = "ledger"
            /\ UNCHANGED <<table, s_error>>
       ELSE IF AllColumns \subseteq cols
       THEN /\ table' = table \cup s_df
            /\ s_pc' = "ledger"
            /\ UNCHANGED s_error
       ELSE /\ table' = AddColumns(s_pre.table, cols \ s_pre.cols)
            /\ s_error' = "OperationalError"
            /\ s_pc' = "idle"
    /\ UNCHANGED <<cols, s_runs, s_df, s_date, s_pre, s_writes>>
    /\ UNCHANGED <<crawlVars, funVars, runVars, graphVars>>

\* INSERT OR REPLACE INTO runs, commit, close (lines 406-412)
SchemaLedger ==
    /\ s_pc = "ledger"
    /\ s_runs' = { r \in s_runs : r.run_date # s_date }
                   \cup { [run_date |-> s_date,
                           total_records |-> Cardinality(s_df)] }
    /\ s_pc' = "idle"
    /\ UNCHANGED <<cols, table, s_df, s_date, s_error, s_pre, s_writes>>
    /\ UNCHANGED <<crawlVars, funVars, runVars, graphVars>>

NextSchema ==
    \/ SchemaCall
    \/ SchemaCreate
    \/ SchemaMigrate
    \/ SchemaDelete
    \/ SchemaInsert
    \/ SchemaLedger

SpecSchema == InitSchema /\ [][NextSchema]_vars

-----------------------------------------------------------------------------
(* The page parsers on one card: what parse_rent_page reads off a room row  *)
(* and parse_baibai_page off a property unit, given the numbers the cells   *)
(* resolve to.  A number is a fraction num/den, floating-point rounding     *)
(* left out; None is Python's None.                                         *)

\* largest price and area tried
MaxAmount == 2

None == [num |-> 0, den |-> 0]
Num(n) == [num |-> n, den |-> 1]

\* x / y for y # 0
Div(x, y) == [num |-> x.num * y.den, den |-> x.den * y.num]

\* what extract_price_yen and the area patterns can resolve a cell to
Amounts == {None} \cup { Num(n) : n \in 0..MaxAmount }

\* 3.305785, as 3305785 / 1000000
TsuboSqm == [num |-> 3305785, den |-> 1000000]

\* extract_area_tsubo: the 坪 figure of the cell if it has one, else the
\* square metres over 3.305785, else None
extract_area_tsubo(tsubo, sqm) ==
    IF tsubo # None THEN tsubo
    ELSE IF sqm = None THEN None
    ELSE Div(sqm, TsuboSqm)

\* Python's truth of "x and x > 0" for a float or None
Positive(x) == x # None /\ x.num > 0

\* the cards: the strategy, the price the price cell resolves to, the
\* square metres and the 坪 figure the area cell gives
Cards == [strategy : {"rent", "sale"}, price : Amounts, sqm : Amounts,
          tsubo : Amounts]

\* the row parse_rent_page appends for a room row
parse_rent_page(card) ==
    [price_yen            |-> card.price,
     area_sqm             |-> card.sqm,
     area_tsubo           |-> extract_area_tsubo(card.tsubo, card.sqm),
     unit_price_per_sqm   |-> None,
     unit_price_per_tsubo |-> None]

\* the row parse_baibai_page appends for a property unit
parse_baibai_page(card) ==
    LET price_yen  == card.price
        area_sqm   == card.sqm
        area_tsubo == extract_area_tsubo(card.tsubo, card.sqm)
    IN  [price_yen            |-> price_yen,
         area_sqm             |-> area_sqm,
         area_tsubo           |-> area_tsubo,
         unit_price_per_sqm   |->
             IF price_yen # None /\ Positive(area_sqm)
             THEN Div(price_yen, area_sqm) ELSE None,
         unit_price_per_tsubo |->
             IF price_yen # None /\ Positive(area_tsubo)
             THEN Div(price_yen, area_tsubo) ELSE None]

InitUnit ==
    /\ CrawlOff /\ RunOff /\ ExtOff
    /\ f_in \in Cards
    /\ f_out = <<>>
    /\ f_pc = "in"

\* cfg.parser(soup), for a page of the one card
ParseCard ==
    /\ f_pc = "in"
    /\ f_out' = IF f_in.strategy = "rent"
                THEN <<parse_rent_page(f_in)>>
                ELSE <<parse_baibai_page(f_in)>>
    /\ f_pc' = "out"
    /\ UNCHANGED <<f_in, crawlVars, runVars, extVars>>

NextUnit == ParseCard

SpecUnit == InitUnit /\ [][NextUnit]_vars

-----------------------------------------------------------------------------
(* extract_price_yen on every short price cell.  A cell is a list of        *)
(* characters: the digits 1 and 2, the units 億 (Oku), 万 (Man) and 円 (En), *)
(* the range delimiter and the blank; no comma, no decimal point.           *)

\* longest price cell tried, in characters
MaxPriceLen == 4

Oku == "Oku"
Man == "Man"
En == "En"
Tilde == "~"
PriceDigits == {"1", "2"}
PriceChars == PriceDigits \cup {Oku, Man, En, Tilde, Blank}

\* An amount of yen is man * 10000 + en with en < 10000 (a float in the
\* code, exact here); NoAmount is None.
NoAmount == [man |-> 0 - 1, en |-> 0]
YenOf(n) == [man |-> n \div 10000, en |-> n % 10000]
ManOf(n) == [man |-> n, en |-> 0]
OkuManOf(o, m) == [man |-> o * 10000 + m, en |-> 0]

AmountLess(a, b) == a.man < b.man \/ (a.man = b.man /\ a.en < b.en)

AmountAdd(a, b) ==
    [man |-> a.man + b.man + ((a.en + b.en) \div 10000),
     en  |-> (a.en + b.en) % 10000]

RECURSIVE AmountSum(_)
AmountSum(vals) ==
    IF vals = <<>> THEN YenOf(0)
    ELSE AmountAdd(Head(vals), AmountSum(Tail(vals)))

\* max(found)
AmountMax(vals) ==
    LET i == CHOOSE k \in 1..Len(vals) :
                 \A j \in 1..Len(vals) : ~AmountLess(vals[k], vals[j])
    IN  vals[i]

\* A price is sum / n, n the number of values averaged; NoPrice is None.
NoPrice == [sum |-> NoAmount, n |-> 0]

\* float(t[i..j-1]) for a run of digits
RECURSIVE Number(_, _, _)
Number(t, i, j) ==
    IF j <= i THEN 0
    ELSE Number(t, i, j - 1) * 10 + (IF t[j - 1] = "1" THEN 1 ELSE 2)

NoMatch == [ok |-> FALSE, val |-> 0, end |-> 0]

\* (\d+)\s*unit matched at index i
NumUnitAt(t, i, unit) ==
    LET e == SkipWhile(t, i, PriceDigits)
        k == SkipWhile(t, e, {Blank})
    IN  IF i <= Len(t) /\ e > i /\ k <= Len(t) /\ t[k] = unit
        THEN [ok |-> TRUE, val |-> Number(t, i, e), end |-> k + 1]
        ELSE NoMatch

Least(S) == CHOOSE i \in S : \A j \in S : i <= j

\* re.search(r"(\d+)\s*unit", t): the leftmost match
SearchNumUnit(t, unit) ==
    LET at == { i \in 1..Len(t) : NumUnitAt(t, i, unit).ok }
    IN  IF at = {} THEN NoMatch ELSE NumUnitAt(t, Least(at), unit)

\* re.search(r"億\s*(\d+)\s*万", t): the leftmost match
SearchOkuMan(t) ==
    LET at == { i \in 1..Len(t) :
                  /\ t[i] = Oku
                  /\ NumUnitAt(t, SkipWhile(t, i + 1, {Blank}), Man).ok }
    IN  IF at = {} THEN NoMatch
        ELSE NumUnitAt(t, SkipWhile(t, Least(at) + 1, {Blank}), Man)

parse_jpy_amount(token) ==
    LET t   == normalize_text(token)
        oku == SearchNumUnit(t, Oku)
        m2  == SearchOkuMan(t)
        man == SearchNumUnit(t, Man)
        en  == SearchNumUnit(t, En)
    IN  IF t = <<>> THEN NoAmount
        ELSE IF oku.ok THEN OkuManOf(oku.val, IF m2.ok THEN m2.val ELSE 0)
        ELSE IF man.ok THEN ManOf(man.val)
        ELSE IF en.ok THEN YenOf(en.val)
        ELSE NoAmount

\* re.split(r"[~〜～]", t)
RECURSIVE SplitRange(_)
SplitRange(t) ==
    LET at == { i \in 1..Len(t) : t[i] = Tilde }
    IN  IF at = {} THEN <<t>>
        ELSE <<SubSeq(t, 1, Least(at) - 1)>> \o
             SplitRange(SubSeq(t, Least(at) + 1, Len(t)))

\* the token pattern of line 82 matched at index i: the index after the
\* match, 0 if none
TokenEnd(t, i) ==
    LET e  == SkipWhile(t, i, PriceDigits)
        k  == SkipWhile(t, e, {Blank})
        e2 == SkipWhile(t, k + 1, PriceDigits)
    IN  IF ~(i <= Len(t) /\ e > i /\ k <= Len(t)) THEN 0
        ELSE IF t[k] = Oku
             THEN IF e2 > k + 1 /\ e2 <= Len(t) /\ t[e2] = Man
                  THEN e2 + 1 ELSE k + 1
        ELSE IF t[k] \in {Man, En} THEN k + 1
        ELSE 0

\* re.findall of the token pattern: the matches from left to right
RECURSIVE FindTokens(_, _)
FindTokens(t, i) ==
    IF i > Len(t) THEN <<>>
    ELSE IF TokenEnd(t, i) = 0 THEN FindTokens(t, i + 1)
    ELSE <<SubSeq(t, i, TokenEnd(t, i) - 1)>> \o FindTokens(t, TokenEnd(t, i))

\* [v for v in map(parse_jpy_amount, texts) if v is not None]
AmountsOf(texts) ==
    SelectSeq([i \in 1..Len(texts) |-> parse_jpy_amount(texts[i])],
              LAMBDA v : v # NoAmount)

extract_price_yen(price_text) ==
    LET t     == normalize_text(price_text)
        vals  == AmountsOf(SplitRange(t))
        found == AmountsOf(FindTokens(t, 1))
    IN  IF t = <<>> THEN NoPrice
        ELSE IF vals # <<>> THEN [sum |-> AmountSum(vals), n |-> Len(vals)]
        ELSE IF found = <<>> THEN NoPrice
        ELSE [sum |-> AmountMax(found), n |-> 1]

InitPrice ==
    /\ CrawlOff /\ RunOff /\ ExtOff
    /\ f_in \in SeqUpTo(PriceChars, MaxPriceLen)
    /\ f_out = <<>>
    /\ f_pc = "in"

ExtractPrice ==
    /\ f_pc = "in"
    /\ f_out' = extract_price_yen(f_in)
    /\ f_pc' = "out"
    /\ UNCHANGED <<f_in, crawlVars, runVars, extVars>>

NextPrice == ExtractPrice

SpecPrice == InitPrice /\ [][NextPrice]_vars

-----------------------------------------------------------------------------
(* C1: crawl_list_pages never visits more than max_pages distinct URLs: in  *)
(* every state of the loop the visited set has at most max_pages elements,  *)
(* and the returned list has at most max_pages entries.                     *)
C1_VisitedWithinBudget ==
    /\ Cardinality(visited) <= max_pages
    /\ cpc = "returned" => Len(result) <= max_pages

\* the budget stops the crawl while admissible URLs are still queued
C1_Witness ==
    /\ cpc = "returned"
    /\ max_pages >= 2
    /\ Len(result) = max_pages
    /\ queue # <<>>

(* C2: every URL ever placed in the queue has the seed's host and a path    *)
(* that starts with the seed's path.                                        *)
C2_EnqueuedOnSeedHost ==
    \A u \in enqueued :
        /\ u.host = seed_url.host
        /\ startswith(u.path, seed_url.path)

(* C3: the upsert of a run date is atomic to readers: whatever a reader    *)
(* loads from the store, while save_sqlite runs or at any other time, is    *)
(* the store as it was before any run or as a completed run left it, never  *)
(* a state in between (the new listings rows with a stale or missing        *)
(* ledger row, or the rows deleted and not yet inserted).                   *)
ListingsView(listings) ==
    { [run_date |-> r.run_date, sub_category |-> r.sub_category,
       address |-> r.address, price_yen |-> r.price_yen,
       area_sqm |-> r.area_sqm] : r \in listings }

C3_ReaderSeesWholeRuns ==
    /\ \E w \in whole : seen_runs = w.runs
    /\ \E w \in whole : seen_listings = ListingsView(w.listings)

(* C4: two runs on the same input HTML and the same run date write the      *)
(* same latest snapshot, every column of every row, fetched_at too, and     *)
(* leave exactly one runs row for the date.                                 *)
RunsOf(ledger, date_str) == { r \in ledger : r.run_date = date_str }

SameRunAgain ==
    /\ pc = "done"
    /\ prev.ok
    /\ prev.site = site
    /\ prev.run_dt = run_dt

C4_SecondRunWritesSameSnapshot ==
    SameRunAgain =>
        /\ latest_csv = prev.latest
        /\ Cardinality(RunsOf(db.runs, isoformat(run_dt))) = 1

(* C4 as amended: two completed runs on the same input HTML and the same    *)
(* run date write latest snapshots that agree in every column of every row  *)
(* but fetched_at, which is the second each run read off the clock, and     *)
(* leave exactly one runs row for the date.                                 *)
C4_SecondRunSameButFetchedAt ==
    SameRunAgain =>
        /\ latest_csv.exists /\ prev.latest.exists
        /\ to_db(latest_csv.rows) = to_db(prev.latest.rows)
        /\ \A i \in 1..Len(latest_csv.rows) :
              /\ latest_csv.rows[i].fetched_at \in 0..clock
              /\ \A j \in 1..Len(latest_csv.rows) :
                    latest_csv.rows[j].fetched_at = latest_csv.rows[i].fetched_at
        /\ Cardinality(RunsOf(db.runs, isoformat(run_dt))) = 1

\* the second run is a second later: its rows differ in fetched_at alone
C4_Witness ==
    /\ SameRunAgain
    /\ latest_csv.rows # <<>>
    /\ latest_csv # prev.latest

(* C5: between runs, every run date written has exactly one runs row; its   *)
(* total_records is the number of listings rows stored under the date, and  *)
(* those rows are the rows of the last completed run for the date, none of  *)
(* an earlier run.  (A date whose last store write broke off before the     *)
(* ledger row was written is not a date of a completed run.)                *)
C5_LedgerMatchesListings ==
    pc \in {"idle", "done", "raised"} =>
        /\ \A r \in db.runs : r.run_date \in DOMAIN completed
        /\ \A d \in DOMAIN completed \ torn :
              /\ Cardinality(RunsOf(db.runs, d)) = 1
              /\ \A r \in RunsOf(db.runs, d) :
                    r.total_records = Cardinality(RowsOf(db.listings, d))
              /\ RowsOf(db.listings, d) = completed[d]

\* a date run twice to completion, the second time with fewer rows
C5_Witness ==
    /\ pc = "done"
    /\ prev.ok
    /\ prev.run_dt = run_dt
    /\ Len(df) > 0
    /\ Len(df) < Len(prev.latest.rows)
    /\ isoformat(run_dt) \notin torn

(* C6: a run for a run date leaves the history file, the listings rows and  *)
(* the runs row of every other date as they were when it started.           *)
C6_OtherDatesUntouched ==
    \A d \in AllDates :
        d # run_dt =>
            /\ ReadFile(history, HistoryName(d)) =
                   ReadFile(pre.history, HistoryName(d))
            /\ RowsOf(db.listings, isoformat(d)) =
                   RowsOf(pre.db.listings, isoformat(d))
            /\ RunsOf(db.runs, isoformat(d)) =
                   RunsOf(pre.db.runs, isoformat(d))

\* a completed run that stored rows while another date had its file, its
\* rows and its runs row
C6_Witness ==
    /\ pc = "done"
    /\ RowsOf(db.listings, isoformat(run_dt)) # {}
    /\ db # pre.db
    /\ \E d \in AllDates :
          /\ d # run_dt
          /\ ReadFile(history, HistoryName(d)).exists
          /\ RowsOf(db.listings, isoformat(d)) # {}
          /\ RunsOf(db.runs, isoformat(d)) # {}

(* C7: a fetch that raises, in the crawl or in the parse pass of any        *)
(* category, ends the run with that error: nothing is fetched after it, and *)
(* the latest snapshot, the history files and the store are as they were    *)
(* when the run started.                                                    *)
C7_TransportErrorAborts ==
    fetch_failed =>
        /\ pc = "raised"
        /\ error = "transport"
        /\ latest_csv = pre.latest
        /\ history = pre.history
        /\ db = pre.db

\* a run that a fetch error ended, an earlier run's output in place
C7_Witness ==
    /\ fetch_failed
    /\ pc = "raised"
    /\ latest_csv.exists
    /\ latest_csv.rows # <<>>
    /\ db.listings # {}
    /\ db.runs # {}

(* C8: a run whose store write raises leaves the latest snapshot, the       *)
(* history files and the store as they were when the run started.           *)
C8_FailedStoreWriteLeavesNothing ==
    error \in {"OperationalError", "IntegrityError"} =>
        /\ latest_csv = pre.latest
        /\ history = pre.history
        /\ db = pre.db

(* C9: every fingerprint group (sub_category, area_sqm rounded to 2         *)
(* decimals, price_yen rounded to an integer, normalized layout_text) of    *)
(* the raw rows has exactly one representative, the first seen, in the      *)
(* final record set.                                                        *)
Fingerprint(r) ==
    <<r.sub_category, RoundHalfEven(r.area_sqm, 10),
      RoundHalfEven(r.price_yen, 10), normalize_text(r.layout_text)>>

Normalized(r) == [r EXCEPT !.address = normalize_text(@)]

FirstOfGroup(rows, i) ==
    \A k \in 1..(i - 1) : Fingerprint(rows[k]) # Fingerprint(rows[i])

C9_OneSurvivorPerGroup ==
    f_pc = "out" =>
        \A i \in 1..Len(f_in) :
            FirstOfGroup(f_in, i) =>
                /\ InSeq(Normalized(f_in[i]), f_out)
                /\ Cardinality({ j \in 1..Len(f_out) :
                        Fingerprint(f_out[j]) = Fingerprint(f_in[i]) }) = 1

(* C9 as amended: at most one row of each fingerprint group survives; the   *)
(* survivors are, in input order, the first row of each group that passes   *)
(* the address filter, less those that share (sub_category, listing_id,     *)
(* detail_url) with such a row of an earlier group.                         *)
Clean(r) == ~is_noisy_address(r.address)

FirstClean(rows, i) ==
    /\ Clean(rows[i])
    /\ \A k \in 1..(i - 1) :
          Clean(rows[k]) => Fingerprint(rows[k]) # Fingerprint(rows[i])

Survivor(rows, i) ==
    /\ FirstClean(rows, i)
    /\ \A k \in 1..(i - 1) :
          FirstClean(rows, k) =>
              <<rows[k].sub_category, rows[k].listing_id, rows[k].detail_url>>
              # <<rows[i].sub_category, rows[i].listing_id, rows[i].detail_url>>

C9_AtMostOnePerGroup ==
    f_pc = "out" =>
        LET S == { i \in 1..Len(f_in) : Survivor(f_in, i) }
        IN  /\ \A j, k \in 1..Len(f_out) :
                  j # k => Fingerprint(f_out[j]) # Fingerprint(f_out[k])
            /\ Len(f_out) = Cardinality(S)
            /\ \A i \in S :
                  f_out[Cardinality({ k \in S : k <= i })] = Normalized(f_in[i])

\* two clean cross-posted rows, not the same listing, collapse to the first
C9_Witness ==
    /\ f_pc = "out"
    /\ Len(f_in) = 2
    /\ Clean(f_in[1]) /\ Clean(f_in[2])
    /\ f_in[1].area_sqm # f_in[2].area_sqm
    /\ f_in[1].area_sqm # NA /\ f_in[2].area_sqm # NA
    /\ f_in[1].detail_url # f_in[2].detail_url
    /\ Fingerprint(f_in[1]) = Fingerprint(f_in[2])
    /\ f_out = <<f_in[1]>>

(* C10: every row whose address has a lot-and-block suffix (a street name,  *)
(* whichever it is, followed by number-number) is excluded from the final   *)
(* record set, and every row whose address has none is retained by the      *)
(* address filter (its other two tests, the empty address and the partial-  *)
(* lot marker, aside).                                                      *)
HasLotBlockSuffix(address) ==
    LotBlockSearch(normalize_text(address), NoisyStreets \cup OtherStreets)

C10_LotBlockExcludedOthersRetained ==
    f_pc = "out" =>
        LET a == normalize_text(f_in[1].address)
        IN  /\ HasLotBlockSuffix(a) => f_out = <<>>
            /\ (~HasLotBlockSuffix(a) /\ a # <<>> /\ ~InSeq(PartialLot, a))
                  => f_out # <<>>

(* C11: schema evolution is additive and lossless.  Given a store whose    *)
(* listings table an older version created with fewer columns, save_sqlite  *)
(* has added every missing column before its DELETE and INSERT, the column  *)
(* set of the table never loses a column, the write does not raise, and     *)
(* every row of another run date that was there when the call started is    *)
(* there afterwards, null in the added columns.                             *)
C11_SchemaGrowsRowsKept ==
    s_pc # "off" =>
        /\ s_error = "none"
        /\ s_pre.cols \subseteq cols
        /\ s_pc \in {"delete", "insert", "ledger"} => cols = AllColumns
        /\ (s_pc = "idle" /\ s_writes > 0) => cols = AllColumns
        /\ \A r \in s_pre.table :
              r["run_date"] # s_date =>
                  AddColumns({r}, cols \ DOMAIN r) \subseteq table

\* a finished write of new rows to a table that lacked unit_price_per_tsubo
\* and held a row of another run date
C11_Witness ==
    /\ s_pc = "idle"
    /\ s_writes > 0
    /\ s_df # {}
    /\ s_df \subseteq table
    /\ s_pre.cols # NoTable
    /\ "unit_price_per_tsubo" \notin s_pre.cols
    /\ \E r \in table :
          /\ r["run_date"] # s_date
          /\ r["unit_price_per_tsubo"] = NULL
          /\ r["title"] = "v"

(* C12: in every row a page parser emits, rent and sale alike,             *)
(* unit_price_per_sqm is there exactly when price_yen is there and area_sqm *)
(* is there and above 0, and is then price_yen / area_sqm; the same for     *)
(* unit_price_per_tsubo with area_tsubo; otherwise the field is absent.     *)
UnitPrice(price, area) ==
    IF price # None /\ area # None /\ area.num > 0
    THEN Div(price, area) ELSE None

C12_UnitPriceWhenOperandsPresent ==
    f_pc = "out" =>
        \A i \in 1..Len(f_out) :
            /\ f_out[i].unit_price_per_sqm =
                   UnitPrice(f_out[i].price_yen, f_out[i].area_sqm)
            /\ f_out[i].unit_price_per_tsubo =
                   UnitPrice(f_out[i].price_yen, f_out[i].area_tsubo)

(* C13: extract_price_yen of a price cell without range delimiter that     *)
(* holds several currency tokens is the largest of the tokens' values; and  *)
(* whenever no side of the delimiter split resolves to a value while the    *)
(* cell holds a currency token, it is that largest value, not None.         *)
CurrencyTokens(price_text) == AmountsOf(FindTokens(normalize_text(price_text), 1))

C13_MaxOfEmbeddedTokens ==
    f_pc = "out" =>
        LET t      == normalize_text(f_in)
            tokens == CurrencyTokens(f_in)
        IN  /\ (~InSeq(Tilde, t) /\ Len(tokens) >= 2)
                  => f_out = [sum |-> AmountMax(tokens), n |-> 1]
            /\ (AmountsOf(SplitRange(t)) = <<>> /\ Len(tokens) >= 1)
                  => f_out = [sum |-> AmountMax(tokens), n |-> 1]

(* C14: on any site, cycles, self-links and links back to the seed         *)
(* included, and for any max_pages >= 0, crawl_list_pages returns if every  *)
(* fetch returns; when it returns, either exactly max_pages distinct URLs   *)
(* have been visited or the queue is empty and every admissible URL         *)
(* reachable from the seed has been visited; and every loop iteration       *)
(* visits a URL not visited before.                                         *)
Admissible(u) == u.host = BASE /\ startswith(u.path, seed_url.path)

\* the admissible targets of the links of the pages in S
Targets(S) ==
    { w \in UNION { { absolute(links[u][i]) : i \in 1..Len(links[u]) }
                      : u \in S \cap DOMAIN links } : Admissible(w) }

RECURSIVE Reachable(_)
Reachable(S) ==
    IF Targets(S) \subseteq S THEN S ELSE Reachable(S \cup Targets(S))

C14_ReturnedRight ==
    cpc = "returned" =>
        \/ Cardinality(visited) = max_pages
        \/ queue = <<>> /\ Reachable({seed_url}) \subseteq visited

C14_TerminatesHavingVisitedAll ==
    /\ <>(cpc = "returned")
    /\ [](C14_ReturnedRight)
    /\ [][(cpc = "loop" /\ queue # <<>> /\ queue' = Tail(queue))
             => (/\ Head(queue) \notin visited
                 /\ visited' = visited \cup {Head(queue)})]_vars

\* the queue ran empty under the budget on a site whose pages link back to
\* the seed and to themselves
C14_Witness ==
    /\ cpc = "returned"
    /\ queue = <<>>
    /\ Cardinality(visited) >= 2
    /\ Cardinality(visited) < max_pages
    /\ \E u \in visited \ {seed_url} :
          /\ InSeq([host |-> "", path |-> seed_url.path], links[u])
    /\ \E u \in visited : InSeq([host |-> "", path |-> u.path], links[u])

(* C15: crawl_list_pages is a breadth-first traversal.  The URLs it        *)
(* returns are the first min(max_pages, number of admissible reachable      *)
(* URLs) URLs in breadth-first discovery order from the seed (level by      *)
(* level, the pages of a level in the order discovered, the links of a page *)
(* in page order); no returned URL is farther from the seed than an         *)
(* admissible reachable URL left out; and the list is in sorted order.      *)

\* the admissible link targets of page u, in page order
LinksOf(u) ==
    IF u \in DOMAIN links
    THEN SelectSeq([i \in 1..Len(links[u]) |-> absolute(links[u][i])], Admissible)
    ELSE <<>>

\* the URLs of list new that are neither in list known nor earlier in new,
\* appended to acc
RECURSIVE Fresh(_, _, _)
Fresh(new, known, acc) ==
    IF new = <<>> THEN acc
    ELSE IF InSeq(Head(new), known) \/ InSeq(Head(new), acc)
         THEN Fresh(Tail(new), known, acc)
         ELSE Fresh(Tail(new), known, Append(acc, Head(new)))

\* the next level: what the pages of level frontier, in order, discover
RECURSIVE NextLevel(_, _, _)
NextLevel(frontier, known, acc) ==
    IF frontier = <<>> THEN acc
    ELSE NextLevel(Tail(frontier), known, Fresh(LinksOf(Head(frontier)), known, acc))

\* breadth-first discovery order from the seed
RECURSIVE BreadthFirst(_, _)
BreadthFirst(order, frontier) ==
    IF frontier = <<>> THEN order
    ELSE LET level == NextLevel(frontier, order, <<>>)
         IN  BreadthFirst(order \o level, level)

BreadthFirstOrder == BreadthFirst(<<seed_url>>, <<seed_url>>)

\* the URLs within k links of the seed
RECURSIVE Within(_)
Within(k) == IF k = 0 THEN {seed_url} ELSE Within(k - 1) \cup Targets(Within(k - 1))

\* link distance from the seed of a reachable URL
Distance(u) ==
    CHOOSE k \in 0..Cardinality(Reachable({seed_url})) :
        u \in Within(k) /\ (k > 0 => u \notin Within(k - 1))

Min(a, b) == IF a < b THEN a ELSE b

C15_BreadthFirstPrefixSorted ==
    cpc = "returned" =>
        LET n == Min(max_pages, Len(BreadthFirstOrder))
        IN  /\ { result[i] : i \in 1..Len(result) } =
                   { BreadthFirstOrder[i] : i \in 1..n }
            /\ Len(result) = n
            /\ \A i \in 1..Len(result), j \in 1..Len(result) :
                  i < j => UrlLess(result[i], result[j])
            /\ \A u \in visited :
                  \A w \in Reachable({seed_url}) \ visited :
                      Distance(u) <= Distance(w)

\* the budget cut the traversal short: a discovered URL is left out, and
\* the URLs returned are the ones discovered before it
C15_Witness ==
    /\ cpc = "returned"
    /\ Len(result) = max_pages
    /\ max_pages >= 2
    /\ queue # <<>>
    /\ Len(BreadthFirstOrder) > max_pages
    /\ Len(links[seed_url]) >= 2

(* C16: the rows that survive run()'s address filter and both dedup passes  *)
(* hold no two rows with the same (sub_category, listing_id), so that       *)
(* inserting them under one run date cannot break the primary key           *)
(* (run_date, sub_category, listing_id) of listings.                        *)
C16_SurvivorsHaveDistinctKeys ==
    f_pc = "out" =>
        \A i \in 1..Len(f_out), j \in 1..Len(f_out) :
            (/\ f_out[i].sub_category = f_out[j].sub_category
             /\ f_out[i].listing_id = f_out[j].listing_id) => i = j

====
